---- MODULE Spec2Model ----
(***************************************************************************)
(* Model of the REST backend: the Product and Post resources (serializer   *)
(* validation, ownership-scoped view sets) and the user endpoints          *)
(* (registration, login, change-password).                                 *)
(*                                                                         *)
(* Conventions                                                             *)
(*  - A request handler is one action.  It records the request in `req`    *)
(*    and the response in `resp`, and updates the stored rows.             *)
(*  - An optional value (a key that a payload may omit, Python's None) is  *)
(*    a sequence of length 0 (absent) or 1 (present).                      *)
(*  - Decimal fields with two decimal places are integers in hundredths.   *)
(*  - Character strings that the code inspects (names, titles, search      *)
(*    terms) are sequences of one-character strings.                       *)
(*  - A validate_<field> operator is TRUE when the Python method returns   *)
(*    the value and FALSE when it raises ValidationError.                  *)
(*  - A row keeps the columns that a rule or a permission reads; the       *)
(*    description, status and timestamp columns are left out.              *)
(***************************************************************************)
EXTENDS Integers, Sequences, FiniteSets, TLC

VARIABLES users, products, productSeq, posts, postSeq, req, resp, inflight

vars == <<users, products, productSeq, posts, postSeq, req, resp, inflight>>

(***************************************************************************)
(* Bounds                                                                  *)
(***************************************************************************)
NumUsers == 2
MaxProducts == 1
MaxPosts == 1
MaxMoney == 2

(***************************************************************************)
(* Optional values and strings                                             *)
(***************************************************************************)
None == <<>>
Some(v) == <<v>>
Opt(S) == {None} \cup {Some(v) : v \in S}
Get(o, default) == IF o = None THEN default ELSE o[1]

Lower(c) == IF c = "A" THEN "a" ELSE IF c = "B" THEN "b" ELSE c

RECURSIVE lstrip(_)
lstrip(s) == IF s # <<>> /\ Head(s) = " " THEN lstrip(Tail(s)) ELSE s

RECURSIVE rstrip(_)
rstrip(s) ==
    IF s # <<>> /\ s[Len(s)] = " " THEN rstrip(SubSeq(s, 1, Len(s) - 1)) ELSE s

strip(s) == rstrip(lstrip(s))

\* serializers.CharField.to_internal_value: trim_whitespace; a value that is
\* empty afterwards is refused (allow_blank=False).
CharField(value) == strip(value)

icontains(s, t) ==
    \E i \in 1..(Len(s) - Len(t) + 1) :
        \A j \in 1..Len(t) : Lower(s[i + j - 1]) = Lower(t[j])

(***************************************************************************)
(* Identities                                                              *)
(***************************************************************************)
Anon == 0
UserIds == 1..NumUsers
GhostId == NumUsers + 1
Requesters == {Anon} \cup UserIds

is_authenticated(u) == u \in DOMAIN users

SAFE_METHODS == {"GET", "HEAD", "OPTIONS"}

IsAuthenticated(u) == is_authenticated(u)

IsAuthenticatedOrReadOnly(u, method) == method \in SAFE_METHODS \/ is_authenticated(u)

(***************************************************************************)
(* Requests and responses                                                  *)
(***************************************************************************)
Request(op, res, who, id, search, data) ==
    [op |-> op, res |-> res, who |-> who, id |-> id, search |-> search, data |-> data]

\* status: the HTTP status; errors: the keys of the error body; detail: the
\* message of a non-field error; ids: the rows of a list body; rec: the record
\* of a detail body; fields: the keys of the serializer that shaped the body;
\* tokens: the identity a returned token pair is issued for.
Response(status, errors, ids, rec, fields) ==
    [status |-> status, errors |-> errors, detail |-> "", ids |-> ids, rec |-> rec,
     fields |-> fields, tokens |-> None]

Failure(status) == Response(status, {}, {}, None, {})

Invalid(errors) == Response(400, errors, {}, None, {})

NoRequest == Request("none", "none", Anon, 0, None, None)

NoResponse == Response(0, {}, {}, None, {})

\* The server takes the next request once the previous response has been sent.
Idle == req = NoRequest

\* The requests that are handled at the same time by several workers: where
\* each one stands, the instance it read and the data it validated.
Workers == {1, 2}

IdleWorker ==
    [pc |-> "idle", who |-> Anon, id |-> 0, partial |-> FALSE, data |-> None,
     instance |-> None, status |-> 0]

NoneInFlight == [w \in Workers |-> IdleWorker]

ProductStoreUnchanged == UNCHANGED <<products, productSeq>>
PostStoreUnchanged == UNCHANGED <<posts, postSeq>>

(***************************************************************************)
(* Users: passwords, serializers and views                                 *)
(***************************************************************************)
Salts == {0, 1}

\* A salted one-way encoding: the digest determines the raw password only
\* together with the salt it was made with.
make_password(raw, salt) == [salt |-> salt, digest |-> <<salt, raw>>]

check_password(raw, user) == make_password(raw, user.salt).digest = user.digest

\* django.contrib.auth.password_validation.validate_password: TRUE when the
\* password passes the configured validators.
WeakPasswords == {"w"}
validate_password(raw) == raw \notin WeakPasswords

\* UserManager.create_user: a new active user whose password is stored hashed.
create_user(email, first_name, last_name, password, salt) ==
    [email      |-> email,
     first_name |-> first_name,
     last_name  |-> last_name,
     salt       |-> make_password(password, salt).salt,
     digest     |-> make_password(password, salt).digest,
     is_active  |-> TRUE]

\* AbstractBaseUser.set_password followed by save.
set_password(user, raw, salt) ==
    [user EXCEPT !.salt = make_password(raw, salt).salt,
                 !.digest = make_password(raw, salt).digest]

UserProfileSerializerFields ==
    {"id", "email", "first_name", "last_name", "full_name", "phone_number",
     "date_joined", "last_login"}

UserProfile(id, user) ==
    Some([id |-> id,
          row |-> [email |-> user.email, first_name |-> user.first_name,
                   last_name |-> user.last_name]])

BlankEmail == 0

\* A registration that never compares the two passwords.
UserRegistrationSerializer_validate_NoCompare(attrs) == TRUE

\* UserRegistrationSerializer.validate: TRUE when it returns attrs.
UserRegistrationSerializer_validate(attrs) == ~(attrs.password # attrs.password2)

\* Field-level pass of UserRegistrationSerializer.
UserRegistrationFieldErrors(data) ==
    {f \in {"email"} :
        \/ data.email = BlankEmail
        \/ \E id \in DOMAIN users : users[id].email = data.email}
    \cup {f \in {"first_name"} :
        data.first_name = None \/ CharField(data.first_name[1]) = <<>>}
    \cup {f \in {"last_name"} :
        data.last_name = None \/ CharField(data.last_name[1]) = <<>>}
    \cup {f \in {"password"} : data.password = "" \/ ~validate_password(data.password)}
    \cup {f \in {"password2"} : data.password2 = ""}

UserRegistrationSerializer_errors(data) ==
    IF UserRegistrationFieldErrors(data) # {} THEN UserRegistrationFieldErrors(data)
    ELSE IF ~UserRegistrationSerializer_validate(data) THEN {"password"}
    ELSE {}

\* UserRegistrationSerializer.create: password2 is dropped, the rest goes to
\* create_user.
UserRegistrationSerializer_create(data, salt) ==
    create_user(data.email, CharField(data.first_name[1]), CharField(data.last_name[1]),
                data.password, salt)

ResourcesUnchanged == ProductStoreUnchanged /\ PostStoreUnchanged

UserRegistrationView_create(data, salt) ==
    /\ Idle
    /\ Cardinality(DOMAIN users) < NumUsers
    /\ req' = Request("register", "user", Anon, 0, None, Some(data))
    /\ IF UserRegistrationSerializer_errors(data) # {}
       THEN /\ resp' = Invalid(UserRegistrationSerializer_errors(data))
            /\ users' = users
       ELSE LET id   == Len(users) + 1
                user == UserRegistrationSerializer_create(data, salt)
            IN  /\ users' = Append(users, user)
                /\ resp' = [Response(201, {}, {}, UserProfile(id, user),
                                     UserProfileSerializerFields)
                              EXCEPT !.tokens = Some(id)]
    /\ ResourcesUnchanged
    /\ UNCHANGED inflight

\* django.contrib.auth.authenticate with ModelBackend: the user of that email
\* when the password verifies and the account is active, else None.
authenticate(email, password) ==
    LET found == {id \in DOMAIN users : users[id].email = email}
    IN  IF found = {} THEN None
        ELSE LET id == CHOOSE i \in found : TRUE
             IN  IF check_password(password, users[id]) /\ users[id].is_active
                 THEN Some(id)
                 ELSE None

CredentialError == "Unable to log in with provided credentials."
DisabledError == "User account is disabled."
MissingError == "Must include \"email\" and \"password\"."

UserLoginFieldErrors(data) ==
    {f \in {"email"} : data.email = BlankEmail}
    \cup {f \in {"password"} : data.password = ""}

\* A login that tells an unknown email from a wrong password.
UserLoginSerializer_validate_Telling(attrs) ==
    IF authenticate(attrs.email, attrs.password) # None
    THEN [user |-> authenticate(attrs.email, attrs.password), detail |-> ""]
    ELSE IF \E id \in DOMAIN users : users[id].email = attrs.email
    THEN [user |-> None, detail |-> "Wrong password."]
    ELSE [user |-> None, detail |-> CredentialError]

\* UserLoginSerializer.validate: the user it puts in attrs, or the message of
\* the ValidationError it raises.
UserLoginSerializer_validate(attrs) ==
    IF attrs.email # BlankEmail /\ attrs.password # ""
    THEN LET user == authenticate(attrs.email, attrs.password)
         IN  IF user = None THEN [user |-> None, detail |-> CredentialError]
             ELSE IF ~users[user[1]].is_active
             THEN [user |-> None, detail |-> DisabledError]
             ELSE [user |-> user, detail |-> ""]
    ELSE [user |-> None, detail |-> MissingError]

UserLoginView_post(data) ==
    /\ Idle
    /\ req' = Request("login", "user", Anon, 0, None, Some(data))
    /\ resp' =
          IF UserLoginFieldErrors(data) # {} THEN Invalid(UserLoginFieldErrors(data))
          ELSE LET v == UserLoginSerializer_validate(data)
               IN  IF v.user = None
                   THEN [Invalid({"non_field_errors"}) EXCEPT !.detail = v.detail]
                   ELSE [Response(200, {}, {}, UserProfile(v.user[1], users[v.user[1]]),
                                  UserProfileSerializerFields)
                           EXCEPT !.tokens = v.user]
    /\ users' = users
    /\ ResourcesUnchanged
    /\ UNCHANGED inflight

\* A validate_old_password that accepts any old password.
validate_old_password_Any(u, value) == TRUE

\* ChangePasswordSerializer.validate_old_password: TRUE when it returns value.
validate_old_password(u, value) == ~(~check_password(value, users[u]))

\* ChangePasswordSerializer.validate: TRUE when it returns attrs.
ChangePasswordSerializer_validate(attrs) == ~(attrs.new_password # attrs.new_password2)

ChangePasswordFieldErrors(u, data) ==
    {f \in {"old_password"} :
        data.old_password = "" \/ ~validate_old_password(u, data.old_password)}
    \cup {f \in {"new_password"} :
        data.new_password = "" \/ ~validate_password(data.new_password)}
    \cup {f \in {"new_password2"} : data.new_password2 = ""}

ChangePasswordSerializer_errors(u, data) ==
    IF ChangePasswordFieldErrors(u, data) # {} THEN ChangePasswordFieldErrors(u, data)
    ELSE IF ~ChangePasswordSerializer_validate(data) THEN {"new_password"}
    ELSE {}

ChangePasswordView_post(u, data, salt) ==
    /\ Idle
    /\ req' = Request("change_password", "user", u, 0, None, Some(data))
    /\ IF ~IsAuthenticated(u)
       THEN resp' = Failure(401) /\ users' = users
       ELSE IF ChangePasswordSerializer_errors(u, data) # {}
       THEN resp' = Invalid(ChangePasswordSerializer_errors(u, data)) /\ users' = users
       ELSE /\ users' = [users EXCEPT ![u] = set_password(users[u], data.new_password, salt)]
            /\ resp' = Response(200, {}, {}, None, {})
    /\ ResourcesUnchanged
    /\ UNCHANGED inflight

(***************************************************************************)
(* Product: model defaults and serializer                                  *)
(***************************************************************************)
ProductTaxDefault == 0
ProductStockDefault == 0

ProductSerializerFields ==
    {"id", "name", "description", "price", "stock", "tax", "cost",
     "calculate_total_price", "status", "created_by", "created_at", "updated_at"}

ProductReadOnlyFields == {"id", "created_by", "created_at", "updated_at"}

validate_price(value) == ~(value <= 0)

validate_cost(value) == ~(value <= 0)

validate_stock(value) == ~(value < 0)

validate_name(value) == strip(value) # <<>>

\* The Python float 0.01 is the binary64 number
\* 0.01000000000000000020816681711721685..., so in hundredths it lies strictly
\* between Float001Floor and Float001Floor + 1.
Float001Floor == 1
Float001IsExact == FALSE

DecimalLtFloat001(value) ==
    value < Float001Floor \/ (value = Float001Floor /\ ~Float001IsExact)

TaxUpper == 100

validate_tax(value) ==
    IF DecimalLtFloat001(value) THEN FALSE
    ELSE IF value > TaxUpper THEN FALSE
    ELSE TRUE

\* Field-level pass of ModelSerializer.to_internal_value: the names of the
\* fields that fail.  instance = None on create.
ProductFieldErrors(data, partial) ==
    {f \in {"name"} :
        IF data.name = None THEN ~partial
        ELSE CharField(data.name[1]) = <<>> \/ ~validate_name(CharField(data.name[1]))}
    \cup {f \in {"price"} :
        IF data.price = None THEN ~partial ELSE ~validate_price(data.price[1])}
    \cup {f \in {"cost"} :
        IF data.cost = None THEN ~partial ELSE ~validate_cost(data.cost[1])}
    \cup {f \in {"tax"} : data.tax # None /\ ~validate_tax(data.tax[1])}
    \cup {f \in {"stock"} : data.stock # None /\ ~validate_stock(data.stock[1])}

\* The validated data: read-only keys are dropped, names are trimmed.
ProductInternalValue(data) ==
    [name  |-> IF data.name = None THEN None ELSE Some(CharField(data.name[1])),
     price |-> data.price,
     cost  |-> data.cost,
     tax   |-> data.tax,
     stock |-> data.stock]

\* A validate that compares only the values the payload carries.
ProductSerializer_validate_PayloadOnly(data, instance) ==
    IF data.cost # None /\ data.price # None
    THEN ~(data.cost[1] > data.price[1])
    ELSE TRUE

\* ProductSerializer.validate: TRUE when it returns data.
ProductSerializer_validate(data, instance) ==
    LET cost  == IF instance # None
                 THEN Some(Get(data.cost, instance[1].cost))
                 ELSE data.cost
        price == IF instance # None
                 THEN Some(Get(data.price, instance[1].price))
                 ELSE data.price
    IN  IF cost # None /\ price # None
        THEN ~(cost[1] > price[1])
        ELSE TRUE

\* Serializer.is_valid: the error keys ({} when valid).
ProductSerializer_errors(data, instance, partial) ==
    LET fieldErrors == ProductFieldErrors(data, partial)
    IN  IF fieldErrors # {} THEN fieldErrors
        ELSE IF ~ProductSerializer_validate(ProductInternalValue(data), instance)
             THEN {"non_field_errors"}
             ELSE {}

\* ModelSerializer.create with the model's field defaults.
Product_create(validated, user) ==
    [name       |-> validated.name[1],
     price      |-> validated.price[1],
     cost       |-> validated.cost[1],
     tax        |-> Get(validated.tax, ProductTaxDefault),
     stock      |-> Get(validated.stock, ProductStockDefault),
     created_by |-> user]

\* ModelSerializer.update: setattr for every validated key, then save.
Product_update(instance, validated) ==
    [name       |-> Get(validated.name, instance.name),
     price      |-> Get(validated.price, instance.price),
     cost       |-> Get(validated.cost, instance.cost),
     tax        |-> Get(validated.tax, instance.tax),
     stock      |-> Get(validated.stock, instance.stock),
     created_by |-> instance.created_by]

\* Product.calculate_total_price on Decimal operands, in ten-thousandths
\* (price in hundredths times 1 + tax in hundredths).
calculate_total_price(p) == p.price * (100 + p.tax)

\* The instance that ModelSerializer.create returns is not read back from the
\* table: a column the validated data omits holds the Python value of the
\* model's `default=`, and for tax that is the float 0.00.
TaxIsFloat(validated) == validated.tax = None

\* serializer.data of one instance: the row with the value of the read-only
\* method field `calculate_total_price`.  With a float tax the method evaluates
\* Decimal * float, which raises TypeError: no representation (None).
ProductSerializer_data(id, row, taxIsFloat) ==
    IF taxIsFloat THEN None
    ELSE Some([id |-> id, row |-> row,
               calculate_total_price |-> calculate_total_price(row)])

\* serializer.data of a row read from the table (every column a Decimal).
ProductRepresentation(id) == ProductSerializer_data(id, products[id], FALSE)

\* Whether a request runs in one transaction that an unhandled exception rolls
\* back is a project setting; both settings are modelled.
ATOMIC_REQUESTS == BOOLEAN

(***************************************************************************)
(* Product: view set                                                       *)
(***************************************************************************)
\* IsAuthorOrReadOnly of products/views.py (defined there, not installed in
\* ProductViewSet.permission_classes).
Product_has_object_permission(u, method, obj) ==
    IF method \in SAFE_METHODS THEN TRUE ELSE obj.created_by = u

\* A queryset that is not scoped to the requester.
Product_get_queryset_AllOwners(u, search) ==
    IF ~is_authenticated(u) THEN {}
    ELSE {id \in DOMAIN products :
            search = None \/ search[1] = <<>> \/ icontains(products[id].name, search[1])}

Product_get_queryset(u, search) ==
    IF ~is_authenticated(u) THEN {}
    ELSE {id \in DOMAIN products :
            /\ products[id].created_by = u
            /\ (search = None \/ search[1] = <<>>
                \/ icontains(products[id].name, search[1]))}

\* ProductPagination, first page at the default page size: the first
\* ProductPageSize rows in pk order.
ProductPageSize == 10

FirstIds(ids, n) == {i \in ids : Cardinality({j \in ids : j < i}) < n}

ProductViewSet_list(u, search) ==
    /\ Idle
    /\ req' = Request("list", "product", u, 0, search, None)
    /\ resp' = Response(200, {}, FirstIds(Product_get_queryset(u, search), ProductPageSize),
                        None, ProductSerializerFields)
    /\ ProductStoreUnchanged
    /\ PostStoreUnchanged
    /\ UNCHANGED <<users, inflight>>

ProductViewSet_retrieve(u, id, search) ==
    /\ Idle
    /\ req' = Request("retrieve", "product", u, id, search, None)
    /\ resp' = IF id \in Product_get_queryset(u, search)
               THEN Response(200, {}, {}, ProductRepresentation(id), ProductSerializerFields)
               ELSE Failure(404)
    /\ ProductStoreUnchanged
    /\ PostStoreUnchanged
    /\ UNCHANGED <<users, inflight>>

ProductViewSet_create(u, data) ==
    /\ Idle
    /\ productSeq < MaxProducts
    /\ req' = Request("create", "product", u, 0, None, Some(data))
    /\ IF ~IsAuthenticatedOrReadOnly(u, "POST")
       THEN resp' = Failure(401) /\ ProductStoreUnchanged
       ELSE IF ProductSerializer_errors(data, None, FALSE) # {}
       THEN resp' = Invalid(ProductSerializer_errors(data, None, FALSE))
            /\ ProductStoreUnchanged
       ELSE LET id == productSeq + 1
                row == Product_create(ProductInternalValue(data), u)
                body == ProductSerializer_data(id, row,
                                               TaxIsFloat(ProductInternalValue(data)))
                saved == /\ productSeq' = id
                         /\ products' = [i \in DOMAIN products \cup {id} |->
                                           IF i = id THEN row ELSE products[i]]
            IN  IF body # None
                THEN saved /\ resp' = Response(201, {}, {}, body, ProductSerializerFields)
                ELSE /\ resp' = Failure(500)
                     /\ \E atomic \in ATOMIC_REQUESTS :
                            IF atomic THEN ProductStoreUnchanged ELSE saved
    /\ PostStoreUnchanged
    /\ UNCHANGED <<users, inflight>>

\* UpdateModelMixin.update (PUT, partial = FALSE) and partial_update (PATCH).
ProductViewSet_update(u, id, search, data, partial) ==
    /\ Idle
    /\ req' = Request(IF partial THEN "partial_update" ELSE "update", "product",
                      u, id, search, Some(data))
    /\ IF ~IsAuthenticatedOrReadOnly(u, IF partial THEN "PATCH" ELSE "PUT")
       THEN resp' = Failure(401) /\ ProductStoreUnchanged
       ELSE IF id \notin Product_get_queryset(u, search)
       THEN resp' = Failure(404) /\ ProductStoreUnchanged
       ELSE IF ProductSerializer_errors(data, Some(products[id]), partial) # {}
       THEN resp' = Invalid(ProductSerializer_errors(data, Some(products[id]), partial))
            /\ ProductStoreUnchanged
       ELSE LET row == Product_update(products[id], ProductInternalValue(data))
            IN  /\ products' = [products EXCEPT ![id] = row]
                /\ productSeq' = productSeq
                /\ resp' = Response(200, {}, {}, ProductSerializer_data(id, row, FALSE),
                                    ProductSerializerFields)
    /\ PostStoreUnchanged
    /\ UNCHANGED <<users, inflight>>

ProductViewSet_destroy(u, id, search) ==
    /\ Idle
    /\ req' = Request("destroy", "product", u, id, search, None)
    /\ IF ~IsAuthenticatedOrReadOnly(u, "DELETE")
       THEN resp' = Failure(401) /\ ProductStoreUnchanged
       ELSE IF id \notin Product_get_queryset(u, search)
       THEN resp' = Failure(404) /\ ProductStoreUnchanged
       ELSE /\ products' = [i \in DOMAIN products \ {id} |-> products[i]]
            /\ productSeq' = productSeq
            /\ resp' = Failure(204)
    /\ PostStoreUnchanged
    /\ UNCHANGED <<users, inflight>>

\* DecimalField.to_python of a query-string value: the hundredths of a string of
\* digits with at most one point and at most two digits after it; None for a
\* string that is no number (ValidationError).  Signs, exponents and longer
\* fractions are not among the inputs.
Digits == <<"0", "1", "2", "3", "4", "5", "6", "7", "8", "9">>

IsDigits(s) == \A i \in DOMAIN s : \E d \in DOMAIN Digits : Digits[d] = s[i]

DigitValue(c) == (CHOOSE d \in DOMAIN Digits : Digits[d] = c) - 1

RECURSIVE DigitsValue(_)
DigitsValue(s) ==
    IF s = <<>> THEN 0
    ELSE DigitsValue(SubSeq(s, 1, Len(s) - 1)) * 10 + DigitValue(s[Len(s)])

to_python(text) ==
    LET points == {i \in DOMAIN text : text[i] = "."}
        point  == IF points = {} THEN Len(text) + 1 ELSE CHOOSE i \in points : TRUE
        whole  == SubSeq(text, 1, point - 1)
        frac   == SubSeq(text, point + 1, Len(text))
    IN  IF /\ Cardinality(points) <= 1
           /\ IsDigits(whole) /\ IsDigits(frac)
           /\ Len(whole) + Len(frac) > 0
           /\ Len(frac) <= 2
        THEN Some(DigitsValue(whole) * 100
                  + (IF Len(frac) = 1 THEN 10 ELSE 1) * DigitsValue(frac))
        ELSE None

\* request.query_params.get('cost', 100): the int 100 when the key is absent.
LowCostDefault == 100

\* A filter that also keeps the rows at the threshold.
Product_low_cost_filter_Lte(threshold) ==
    {id \in DOMAIN products : products[id].cost <= threshold}

\* self.queryset.filter(cost__lt=cost) on the class-level queryset: every
\* Product, whoever owns it.
Product_low_cost_filter(threshold) ==
    {id \in DOMAIN products : products[id].cost < threshold}

\* ProductViewSet.low_cost: not paginated; a cost that is no number makes the
\* filter raise ValidationError, which is answered 500.
ProductViewSet_low_cost(u, cost) ==
    LET threshold == IF cost = None THEN Some(LowCostDefault * 100)
                     ELSE to_python(cost[1])
    IN  /\ Idle
        /\ req' = Request("low_cost", "product", u, 0, None, Some([cost |-> cost]))
        /\ resp' = IF ~IsAuthenticatedOrReadOnly(u, "GET") THEN Failure(401)
                   ELSE IF threshold = None THEN Failure(500)
                   ELSE Response(200, {}, Product_low_cost_filter(threshold[1]), None,
                                 ProductSerializerFields)
        /\ ProductStoreUnchanged
        /\ PostStoreUnchanged
        /\ UNCHANGED <<users, inflight>>

(***************************************************************************)
(* Post: serializers                                                       *)
(***************************************************************************)
PostIsPublishedDefault == FALSE

PostSerializerFields ==
    {"id", "title", "content", "author", "author_username", "created_at",
     "updated_at", "is_published"}

PostSerializerReadOnlyFields == {"id", "created_at", "updated_at", "author_username"}

PostListSerializerFields == {"id", "title", "author_username", "created_at", "is_published"}

\* Field-level pass of PostSerializer: `author` is in Meta.fields and not in
\* read_only_fields, so it is a writable primary-key field naming a stored user.
PostFieldErrors(data, partial) ==
    {f \in {"title"} :
        IF data.title = None THEN ~partial ELSE CharField(data.title[1]) = <<>>}
    \cup {f \in {"content"} :
        IF data.content = None THEN ~partial ELSE CharField(data.content[1]) = <<>>}
    \cup {f \in {"author"} :
        IF data.author = None THEN ~partial ELSE data.author[1] \notin DOMAIN users}

PostInternalValue(data) ==
    [title        |-> IF data.title = None THEN None ELSE Some(CharField(data.title[1])),
     content      |-> IF data.content = None THEN None ELSE Some(CharField(data.content[1])),
     author       |-> data.author,
     is_published |-> data.is_published]

\* A create that keeps the author the payload names.
Post_create_PayloadAuthor(validated, user) ==
    [title        |-> validated.title[1],
     content      |-> validated.content[1],
     author       |-> Get(validated.author, user),
     is_published |-> Get(validated.is_published, PostIsPublishedDefault)]

\* serializer.save(author=request.user), then PostSerializer.create: both put the
\* requester over whatever author the validated data carries.
Post_create(validated, user) ==
    [title        |-> validated.title[1],
     content      |-> validated.content[1],
     author       |-> user,
     is_published |-> Get(validated.is_published, PostIsPublishedDefault)]

\* ModelSerializer.update: setattr for every validated key, then save.
Post_update(instance, validated) ==
    [title        |-> Get(validated.title, instance.title),
     content      |-> Get(validated.content, instance.content),
     author       |-> Get(validated.author, instance.author),
     is_published |-> Get(validated.is_published, instance.is_published)]

PostRepresentation(id) == Some([id |-> id, row |-> posts[id]])

(***************************************************************************)
(* Post: view set                                                          *)
(***************************************************************************)
\* IsAuthorOrReadOnly of posts/views.py.
Post_has_object_permission(u, method, obj) ==
    IF method \in SAFE_METHODS THEN TRUE ELSE obj.author = u

\* queryset = Post.objects.all(), through SearchFilter on title and content.
Post_filter_queryset(search) ==
    {id \in DOMAIN posts :
        \/ search = None
        \/ search[1] = <<>>
        \/ icontains(posts[id].title, search[1])
        \/ icontains(posts[id].content, search[1])}

\* One serializer for every action.
PostViewSet_get_serializer_class_Single(action) == PostSerializerFields

PostViewSet_get_serializer_class(action) ==
    IF action = "list" THEN PostListSerializerFields ELSE PostSerializerFields

\* The permission instances of an action; the first that refuses decides.
PostViewSet_get_permissions(action) ==
    IF action \in {"update", "partial_update", "destroy"}
    THEN <<"IsAuthenticated", "IsAuthorOrReadOnly">>
    ELSE <<"IsAuthenticatedOrReadOnly">>

\* View-level check (has_permission) of the permissions of an action.
Post_check_permissions(action, u, method) ==
    \A i \in DOMAIN PostViewSet_get_permissions(action) :
        LET p == PostViewSet_get_permissions(action)[i]
        IN  CASE p = "IsAuthenticated" -> IsAuthenticated(u)
              [] p = "IsAuthenticatedOrReadOnly" -> IsAuthenticatedOrReadOnly(u, method)
              [] OTHER -> TRUE

\* Object-level check (has_object_permission) of the permissions of an action.
Post_check_object_permissions(action, u, method, obj) ==
    \A i \in DOMAIN PostViewSet_get_permissions(action) :
        LET p == PostViewSet_get_permissions(action)[i]
        IN  CASE p = "IsAuthorOrReadOnly" -> Post_has_object_permission(u, method, obj)
              [] OTHER -> TRUE

PostViewSet_list(u, search) ==
    /\ Idle
    /\ req' = Request("list", "post", u, 0, search, None)
    /\ resp' = IF Post_check_permissions("list", u, "GET")
               THEN Response(200, {}, Post_filter_queryset(search), None,
                             PostViewSet_get_serializer_class("list"))
               ELSE Failure(401)
    /\ ProductStoreUnchanged
    /\ PostStoreUnchanged
    /\ UNCHANGED <<users, inflight>>

PostViewSet_retrieve(u, id, search) ==
    /\ Idle
    /\ req' = Request("retrieve", "post", u, id, search, None)
    /\ resp' = IF ~Post_check_permissions("retrieve", u, "GET") THEN Failure(401)
               ELSE IF id \notin Post_filter_queryset(search) THEN Failure(404)
               ELSE IF ~Post_check_object_permissions("retrieve", u, "GET", posts[id])
               THEN Failure(403)
               ELSE Response(200, {}, {}, PostRepresentation(id),
                             PostViewSet_get_serializer_class("retrieve"))
    /\ ProductStoreUnchanged
    /\ PostStoreUnchanged
    /\ UNCHANGED <<users, inflight>>

\* CreateModelMixin.create with PostViewSet.perform_create.
PostViewSet_create(u, data) ==
    /\ Idle
    /\ postSeq < MaxPosts
    /\ req' = Request("create", "post", u, 0, None, Some(data))
    /\ IF ~Post_check_permissions("create", u, "POST")
       THEN resp' = Failure(401) /\ PostStoreUnchanged
       ELSE IF PostFieldErrors(data, FALSE) # {}
       THEN resp' = Invalid(PostFieldErrors(data, FALSE)) /\ PostStoreUnchanged
       ELSE LET id == postSeq + 1
                row == Post_create(PostInternalValue(data), u)
            IN  /\ postSeq' = id
                /\ posts' = [i \in DOMAIN posts \cup {id} |->
                               IF i = id THEN row ELSE posts[i]]
                /\ resp' = Response(201, {}, {}, Some([id |-> id, row |-> row]),
                                    PostViewSet_get_serializer_class("create"))
    /\ ProductStoreUnchanged
    /\ UNCHANGED <<users, inflight>>

PostViewSet_update(u, id, search, data, partial) ==
    LET action == IF partial THEN "partial_update" ELSE "update"
        method == IF partial THEN "PATCH" ELSE "PUT"
    IN  /\ Idle
        /\ req' = Request(action, "post", u, id, search, Some(data))
        /\ IF ~Post_check_permissions(action, u, method)
           THEN resp' = Failure(401) /\ PostStoreUnchanged
           ELSE IF id \notin Post_filter_queryset(search)
           THEN resp' = Failure(404) /\ PostStoreUnchanged
           ELSE IF ~Post_check_object_permissions(action, u, method, posts[id])
           THEN resp' = Failure(403) /\ PostStoreUnchanged
           ELSE IF PostFieldErrors(data, partial) # {}
           THEN resp' = Invalid(PostFieldErrors(data, partial)) /\ PostStoreUnchanged
           ELSE LET row == Post_update(posts[id], PostInternalValue(data))
                IN  /\ posts' = [posts EXCEPT ![id] = row]
                    /\ postSeq' = postSeq
                    /\ resp' = Response(200, {}, {}, Some([id |-> id, row |-> row]),
                                        PostViewSet_get_serializer_class(action))
        /\ ProductStoreUnchanged
        /\ UNCHANGED <<users, inflight>>

PostViewSet_destroy(u, id, search) ==
    /\ Idle
    /\ req' = Request("destroy", "post", u, id, search, None)
    /\ IF ~Post_check_permissions("destroy", u, "DELETE")
       THEN resp' = Failure(401) /\ PostStoreUnchanged
       ELSE IF id \notin Post_filter_queryset(search)
       THEN resp' = Failure(404) /\ PostStoreUnchanged
       ELSE IF ~Post_check_object_permissions("destroy", u, "DELETE", posts[id])
       THEN resp' = Failure(403) /\ PostStoreUnchanged
       ELSE /\ posts' = [i \in DOMAIN posts \ {id} |-> posts[i]]
            /\ postSeq' = postSeq
            /\ resp' = Failure(204)
    /\ ProductStoreUnchanged
    /\ UNCHANGED <<users, inflight>>

(***************************************************************************)
(* Inputs                                                                  *)
(***************************************************************************)
MoneyInputs == 0..MaxMoney
TaxInputs == {0, 1, 2, 100, 101}
StockInputs == {-1, 0}
NameInputs == {<<" ">>, <<"a">>}
SearchInputs == {None, Some(<<"A">>), Some(<<"b">>)}
WriteSearchInputs == {None, Some(<<"b">>)}
ProductIds == 1..MaxProducts

ProductPayload(name, price, cost, tax, stock, created_by) ==
    [name |-> name, price |-> price, cost |-> cost, tax |-> tax, stock |-> stock,
     created_by |-> created_by]

\* Payloads that vary name, price, cost and tax, payloads that vary name and
\* stock, and a payload that also carries a calculate_total_price key.
ProductPayloads ==
    {ProductPayload(n, p, c, t, None, None) :
        n \in Opt({<<"a">>}), p \in Opt(MoneyInputs), c \in Opt(MoneyInputs),
        t \in Opt(TaxInputs)}
    \cup {ProductPayload(n, Some(MaxMoney), Some(1), None, s, None) :
        n \in Opt(NameInputs), s \in Opt(StockInputs)}
    \cup {ProductPayload(Some(<<"a">>), Some(MaxMoney), Some(1), Some(2), None, None)
             @@ [calculate_total_price |-> Some(0)]}

\* The identities of the resource specifications, as registration stores them.
RegisteredUsers ==
    [u \in UserIds |-> create_user(u, <<"n">>, <<"n">>, "p", 0)]

InitResources ==
    /\ users = RegisteredUsers
    /\ products = <<>>
    /\ productSeq = 0
    /\ posts = <<>>
    /\ postSeq = 0
    /\ req = NoRequest
    /\ resp = NoResponse
    /\ inflight = NoneInFlight

\* The response has been sent: the exchange is over.
Deliver ==
    /\ ~Idle
    /\ req' = NoRequest
    /\ resp' = NoResponse
    /\ ProductStoreUnchanged
    /\ PostStoreUnchanged
    /\ UNCHANGED <<users, inflight>>

NextProduct ==
    \/ Idle /\ \E u \in {Anon, 1}, d \in ProductPayloads : ProductViewSet_create(u, d)
    \/ Idle /\ \E u \in {Anon, 1}, id \in ProductIds, d \in ProductPayloads,
                   partial \in BOOLEAN :
                ProductViewSet_update(u, id, None, d, partial)
    \/ Idle /\ \E u \in {Anon, 1}, id \in ProductIds : ProductViewSet_destroy(u, id, None)
    \/ Idle /\ \E u \in {Anon, 1}, id \in ProductIds : ProductViewSet_retrieve(u, id, None)
    \/ Deliver

SpecProduct == InitResources /\ [][NextProduct]_vars

(***************************************************************************)
(* Both resources, several identities                                      *)
(***************************************************************************)
PostIds == 1..MaxPosts

PostPayload(title, content, author, is_published) ==
    [title |-> title, content |-> content, author |-> author,
     is_published |-> is_published]

PostPayloads ==
    {PostPayload(t, Some(<<"c">>), a, p) :
        t \in Opt({<<"a">>, <<" ">>}), a \in Opt({1, 2, GhostId}), p \in Opt({TRUE})}

\* A valid payload, a price-only payload, a payload with cost above price and
\* an empty payload, each with and without a created_by key.
OwnedProductPayloads ==
    {ProductPayload(Some(<<"a">>), Some(MaxMoney), Some(1), Some(2), None, o) :
        o \in Opt({2})}
    \cup {ProductPayload(None, Some(1), None, None, None, o) : o \in Opt({2})}
    \cup {ProductPayload(Some(<<"a">>), Some(1), Some(MaxMoney), None, None, None),
          ProductPayload(None, None, None, None, None, None)}

NextOwned ==
    \/ Idle /\ \E u \in Requesters, q \in SearchInputs : ProductViewSet_list(u, q)
    \/ Idle /\ \E u \in Requesters, id \in ProductIds, q \in SearchInputs :
                ProductViewSet_retrieve(u, id, q)
    \/ Idle /\ \E u \in Requesters, d \in OwnedProductPayloads : ProductViewSet_create(u, d)
    \/ Idle /\ \E u \in Requesters, id \in ProductIds, q \in WriteSearchInputs,
                   d \in OwnedProductPayloads, partial \in BOOLEAN :
                ProductViewSet_update(u, id, q, d, partial)
    \/ Idle /\ \E u \in Requesters, id \in ProductIds, q \in WriteSearchInputs :
                ProductViewSet_destroy(u, id, q)
    \/ Idle /\ \E u \in Requesters, q \in SearchInputs : PostViewSet_list(u, q)
    \/ Idle /\ \E u \in Requesters, id \in PostIds, q \in SearchInputs :
                PostViewSet_retrieve(u, id, q)
    \/ Idle /\ \E u \in Requesters, d \in PostPayloads : PostViewSet_create(u, d)
    \/ Idle /\ \E u \in Requesters, id \in PostIds, q \in WriteSearchInputs,
                   d \in PostPayloads, partial \in BOOLEAN :
                PostViewSet_update(u, id, q, d, partial)
    \/ Idle /\ \E u \in Requesters, id \in PostIds, q \in WriteSearchInputs :
                PostViewSet_destroy(u, id, q)
    \/ Deliver

SpecOwned == InitResources /\ [][NextOwned]_vars

(***************************************************************************)
(* The low-cost query                                                      *)
(***************************************************************************)
\* Costs one cent apart around the smallest amounts and around the default
\* threshold of 100.00.
LowCostCosts == {1, MaxMoney, LowCostDefault * 100 - 1, LowCostDefault * 100}

LowCostPayloads ==
    {ProductPayload(Some(<<"a">>), Some(LowCostDefault * 100), Some(c), Some(2),
                    None, None) : c \in LowCostCosts}

\* No cost key, 0.02, 0.2, 2, 100, and a value that is no number.
LowCostInputs ==
    {None,
     Some(<<"0", ".", "0", "2">>), Some(<<".", "2">>), Some(<<"2">>),
     Some(<<"1", "0", "0">>), Some(<<"x">>)}

NextLowCost ==
    \/ Idle /\ \E u \in UserIds, d \in LowCostPayloads : ProductViewSet_create(u, d)
    \/ Idle /\ \E u \in Requesters, c \in LowCostInputs : ProductViewSet_low_cost(u, c)
    \/ Idle /\ \E u \in UserIds, id \in ProductIds : ProductViewSet_destroy(u, id, None)
    \/ Deliver

SpecLowCost == InitResources /\ [][NextLowCost]_vars

(***************************************************************************)
(* Updates of a Product handled at the same time                           *)
(***************************************************************************)
\* A save that writes only the validated columns over the stored row.
Model_save_UpdateFields(stored, instance, validated) == Product_update(stored, validated)

\* Model.save() without update_fields: the UPDATE writes every column of the
\* in-memory instance, the ones the request did not touch included.
Model_save(stored, instance, validated) == instance

Finished(w, status) == [IdleWorker EXCEPT !.pc = "done", !.status = status]

\* UpdateModelMixin.update up to is_valid: permission, get_object (the read of
\* the row) and validation of the data against the instance that was read.
Update_get_object(w, u, id, data, partial) ==
    /\ inflight[w].pc = "idle"
    /\ inflight' = [inflight EXCEPT ![w] =
         IF ~IsAuthenticatedOrReadOnly(u, IF partial THEN "PATCH" ELSE "PUT")
         THEN Finished(w, 401)
         ELSE IF id \notin Product_get_queryset(u, None) THEN Finished(w, 404)
         ELSE IF ProductSerializer_errors(data, Some(products[id]), partial) # {}
         THEN Finished(w, 400)
         ELSE [pc |-> "validated", who |-> u, id |-> id, partial |-> partial,
               data |-> Some(ProductInternalValue(data)),
               instance |-> Some(products[id]), status |-> 0]]
    /\ ProductStoreUnchanged
    /\ PostStoreUnchanged
    /\ UNCHANGED <<users, req, resp>>

\* perform_update: serializer.save() sets the validated attributes on the
\* instance that was read and saves it.
Update_perform_update(w) ==
    /\ inflight[w].pc = "validated"
    /\ inflight[w].id \in DOMAIN products
    /\ LET id == inflight[w].id
           instance == Product_update(inflight[w].instance[1], inflight[w].data[1])
       IN  products' = [products EXCEPT
                          ![id] = Model_save(products[id], instance, inflight[w].data[1])]
    /\ inflight' = [inflight EXCEPT ![w].pc = "done", ![w].status = 200]
    /\ productSeq' = productSeq
    /\ PostStoreUnchanged
    /\ UNCHANGED <<users, req, resp>>

\* The response of a finished request has been sent.
Update_respond(w) ==
    /\ inflight[w].pc = "done"
    /\ inflight' = [inflight EXCEPT ![w] = IdleWorker]
    /\ ProductStoreUnchanged
    /\ PostStoreUnchanged
    /\ UNCHANGED <<users, req, resp>>

\* The rows that validated creates by user 1 store.
StoredByOwner ==
    {Product_create(ProductInternalValue(d), 1) :
        d \in {d \in {ProductPayload(Some(<<"a">>), Some(p), Some(c), Some(2), None, None) :
                        p \in MoneyInputs, c \in MoneyInputs} :
                 ProductSerializer_errors(d, None, FALSE) = {}}}

\* Price-only and cost-only payloads, a full payload and an empty one.
ConcurrentPayloads ==
    {ProductPayload(None, Some(p), None, None, None, None) : p \in MoneyInputs \ {0}}
    \cup {ProductPayload(None, None, Some(c), None, None, None) : c \in MoneyInputs \ {0}}
    \cup {ProductPayload(Some(<<"a">>), Some(MaxMoney), Some(1), None, None, None),
          ProductPayload(None, None, None, None, None, None)}

InitConcurrent ==
    /\ users = RegisteredUsers
    /\ products \in [ProductIds -> StoredByOwner]
    /\ productSeq = MaxProducts
    /\ posts = <<>>
    /\ postSeq = 0
    /\ req = NoRequest
    /\ resp = NoResponse
    /\ inflight = NoneInFlight

NextConcurrent ==
    \/ \E w \in Workers, u \in {Anon, 1}, id \in ProductIds, d \in ConcurrentPayloads,
           partial \in BOOLEAN :
          Update_get_object(w, u, id, d, partial)
    \/ \E w \in Workers : Update_perform_update(w)
    \/ \E w \in Workers : Update_respond(w)

SpecConcurrent == InitConcurrent /\ [][NextConcurrent]_vars

(***************************************************************************)
(* The user endpoints                                                      *)
(***************************************************************************)
EmailInputs == BlankEmail..NumUsers
PasswordInputs == {"", "w", "p", "q"}

RegistrationPayloads ==
    [email : EmailInputs, first_name : Opt({<<"n">>}), last_name : {Some(<<"n">>)},
     password : PasswordInputs, password2 : PasswordInputs]

LoginPayloads == [email : EmailInputs, password : PasswordInputs]

ChangePasswordPayloads ==
    [old_password : PasswordInputs, new_password : PasswordInputs,
     new_password2 : PasswordInputs]

InitUsers ==
    /\ users = <<>>
    /\ products = <<>>
    /\ productSeq = 0
    /\ posts = <<>>
    /\ postSeq = 0
    /\ req = NoRequest
    /\ resp = NoResponse
    /\ inflight = NoneInFlight

NextUsers ==
    \/ Idle /\ \E d \in RegistrationPayloads, salt \in Salts :
                UserRegistrationView_create(d, salt)
    \/ Idle /\ \E d \in LoginPayloads : UserLoginView_post(d)
    \/ Idle /\ \E u \in Requesters, d \in ChangePasswordPayloads, salt \in Salts :
                ChangePasswordView_post(u, d, salt)
    \/ Deliver

SpecUsers == InitUsers /\ [][NextUsers]_vars

(***************************************************************************)
(* Product validation properties                                           *)
(***************************************************************************)
ProductWriteOps == {"create", "update", "partial_update"}

IsProductWrite(r) == r.res = "product" /\ r.op \in ProductWriteOps

\* The value a write request gives a field: the payload's when it carries the
\* key, else the stored row's when the request is an update of a row of `store`.
EffectiveValue(r, store, key) ==
    IF r.data[1][key] # None THEN r.data[1][key]
    ELSE IF r.op # "create" /\ r.id \in DOMAIN store THEN Some(store[r.id][key])
    ELSE None

CostExceedsPrice(r, store) ==
    /\ EffectiveValue(r, store, "cost") # None
    /\ EffectiveValue(r, store, "price") # None
    /\ EffectiveValue(r, store, "cost")[1] > EffectiveValue(r, store, "price")[1]

Accepted(r) == r.status \in {200, 201}

\* C1: a Product create, update or partial update whose effective cost (the
\* payload's value, else the stored one) exceeds its effective price is never
\* accepted and leaves the stored rows as they were.
C1_CostAbovePriceRejected ==
    [][(IsProductWrite(req') /\ CostExceedsPrice(req', products))
          => (~Accepted(resp') /\ products' = products)]_vars

\* C1 witness: a partial update that carries only a cost above the stored price
\* has been rejected by the record-level rule.
C1_Witness ==
    /\ req.res = "product" /\ req.op = "partial_update"
    /\ req.data[1].cost # None /\ req.data[1].price = None
    /\ req.id \in DOMAIN products
    /\ req.data[1].cost[1] > products[req.id].price
    /\ resp.status = 400
    /\ resp.errors = {"non_field_errors"}

ProductInvariants(p) ==
    /\ p.price > 0
    /\ p.cost > 0
    /\ p.cost <= p.price
    /\ p.stock >= 0
    /\ 1 <= p.tax /\ p.tax <= 100
    /\ strip(p.name) # <<>>

\* C2: every stored Product has price > 0, cost > 0, cost <= price, stock >= 0,
\* 0.01 <= tax <= 1.00 and a name that is non-empty after trimming.
C2_StoredProductInvariants ==
    \A id \in DOMAIN products : ProductInvariants(products[id])

ValidationRan(r) == r.status \in {200, 201, 400}

\* C3: a Product payload that supplies a tax is rejected with a tax-field error
\* exactly when tax < 0.01 or tax > 1.00; both bounds are accepted.
C3_TaxRejectedIffOutOfRange ==
    (IsProductWrite(req) /\ req.data[1].tax # None /\ ValidationRan(resp))
        => (("tax" \in resp.errors)
              <=> (req.data[1].tax[1] < 1 \/ req.data[1].tax[1] > 100))

\* The example of the specification: price 100.00, cost 50.00, tax 0.06.
ExamplePayload ==
    ProductPayload(Some(<<"a">>), Some(10000), Some(5000), Some(6), None, None)

\* The response answers for a Product row: the request was not refused by
\* permission (401), lookup (404) or validation (400).
AnswersForProduct(r, s) ==
    r.res = "product" /\ r.op \in {"create", "retrieve", "update", "partial_update"}
    /\ s.status \notin {400, 401, 404}

\* C12: every response that answers for a Product exposes a total equal to
\* price x (1 + tax) of the row as it is stored, whatever the payload says
\* about the total; price 100.00, cost 50.00, tax 0.06 is valid and its total
\* is 106.00.
C12_TotalIsPriceTimesOnePlusTax ==
    /\ ProductSerializer_errors(ExamplePayload, None, FALSE) = {}
    /\ calculate_total_price(Product_create(ProductInternalValue(ExamplePayload), 1))
          = 1060000
    /\ AnswersForProduct(req, resp)
          => /\ resp.rec # None
             /\ resp.rec[1].id \in DOMAIN products
             /\ LET p == products[resp.rec[1].id]
                IN  resp.rec[1].calculate_total_price = p.price * (100 + p.tax)

\* Where a total is exposed it is the one of the stored row.
ExposedTotalsAreDerived ==
    (req.res = "product" /\ resp.rec # None)
        => /\ resp.rec[1].id \in DOMAIN products
           /\ LET p == products[resp.rec[1].id]
              IN  resp.rec[1].calculate_total_price = p.price * (100 + p.tax)

\* The threshold a cost parameter stands for, in hundredths.
ThresholdOf(cost) ==
    CASE cost = None -> Some(10000)
      [] cost = Some(<<"0", ".", "0", "2">>) -> Some(2)
      [] cost = Some(<<".", "2">>) -> Some(20)
      [] cost = Some(<<"2">>) -> Some(200)
      [] cost = Some(<<"1", "0", "0">>) -> Some(10000)
      [] OTHER -> None

\* C13: the low-cost query with a numeric threshold, or with none (then
\* 100.00), is answered with exactly the stored Products whose cost is strictly
\* below the threshold: none at or above it, and each one below it.
C13_LowCostStrictlyBelow ==
    (req.op = "low_cost" /\ ThresholdOf(req.data[1].cost) # None)
        => /\ resp.status = 200
           /\ resp.ids = {id \in DOMAIN products :
                             products[id].cost < ThresholdOf(req.data[1].cost)[1]}

\* C13 witness: the query without a threshold was made while a Product with
\* cost 100.00 is stored, and that Product was not returned.
C13_Witness ==
    /\ req.op = "low_cost" /\ req.data[1].cost = None
    /\ \E id \in DOMAIN products : products[id].cost = 10000
    /\ resp.status = 200 /\ resp.ids = {}

\* The query with a threshold of 0.02 returned a Product that costs 0.01.
C13_BelowReturned ==
    /\ req.op = "low_cost" /\ req.data[1].cost = Some(<<"0", ".", "0", "2">>)
    /\ \E id \in resp.ids : products[id].cost = 1

(***************************************************************************)
(* Ownership properties of both resources                                  *)
(***************************************************************************)
StoreOf(res, productRows, postRows) == IF res = "product" THEN productRows ELSE postRows

OwnerOf(res, row) == IF res = "product" THEN row.created_by ELSE row.author

Rows(res) == StoreOf(res, products, posts)

OwnedOnly(r, s) ==
    /\ s.status = 200
    /\ \A id \in s.ids : id \in DOMAIN Rows(r.res) /\ OwnerOf(r.res, Rows(r.res)[id]) = r.who
    /\ (r.who = Anon => s.ids = {})

\* C4 as stated: the list of Posts and the list of Products return only records
\* owned by the requester, and an unauthenticated requester gets an empty
\* result without an error.
C4_ListsOnlyOwnRecords == (req.op = "list") => OwnedOnly(req, resp)

\* C4 amended: the Product list returns only records owned by the requester
\* (empty, without an error, for an unauthenticated requester); the Post list
\* is not scoped to the requester: without a search term it returns every
\* stored Post to every requester, authenticated or not.
C4_ProductListOwnedPostListAll ==
    /\ (req.op = "list" /\ req.res = "product") => OwnedOnly(req, resp)
    /\ (req.op = "list" /\ req.res = "post" /\ req.search = None)
           => (resp.status = 200 /\ resp.ids = DOMAIN posts)

\* C4 witness: an authenticated requester has listed the Products while the
\* only stored Product belongs to another identity, and got an empty list.
C4_Witness ==
    /\ req.op = "list" /\ req.res = "product" /\ req.search = None
    /\ req.who \in DOMAIN users
    /\ \E id \in DOMAIN products : products[id].created_by # req.who
    /\ resp.status = 200 /\ resp.ids = {}

MutatingOps == {"update", "partial_update", "destroy"}

\* C5: an update, partial update or delete by an authenticated identity that
\* does not own the existing target Post or Product is answered 403 and leaves
\* the stored rows as they were.
C5_NonOwnerWriteForbidden ==
    [][(/\ req'.op \in MutatingOps
        /\ req'.who \in DOMAIN users
        /\ req'.id \in DOMAIN Rows(req'.res)
        /\ OwnerOf(req'.res, Rows(req'.res)[req'.id]) # req'.who)
          => (resp'.status = 403 /\ products' = products /\ posts' = posts)]_vars

FullFields(res) == IF res = "product" THEN ProductSerializerFields ELSE PostSerializerFields

C7_RetrieveUnrestricted ==
    (req.op = "retrieve")
        => /\ (req.id \in DOMAIN Rows(req.res))
                 => /\ resp.status = 200
                    /\ resp.rec # None
                    /\ resp.rec[1].id = req.id
                    /\ resp.rec[1].row = Rows(req.res)[req.id]
                    /\ resp.fields = FullFields(req.res)
           /\ (resp.status = 404) => (req.id \notin DOMAIN Rows(req.res))

\* C14: no request changes the owner of a stored record: a Post or Product
\* that is stored before and after a step has the same author or created_by,
\* so the owner is always the identity that created the record.
C14_OwnerFixedAtCreation ==
    [][/\ \A id \in DOMAIN posts \cap DOMAIN posts' :
             posts'[id].author = posts[id].author
       /\ \A id \in DOMAIN products \cap DOMAIN products' :
             products'[id].created_by = products[id].created_by]_vars

\* The part that holds: the creator of a Product stays its created_by.
ProductOwnerFixed ==
    [][\A id \in DOMAIN products \cap DOMAIN products' :
          products'[id].created_by = products[id].created_by]_vars

\* C15: when the updates and partial updates that the owner made at the same
\* time on a Product have all written, whatever the order of their reads and
\* writes, the stored Product has cost <= price.
C15_ConcurrentUpdatesKeepCostAtMostPrice ==
    (\A w \in Workers : inflight[w].pc # "validated")
        => \A id \in DOMAIN products : products[id].cost <= products[id].price

\* C15 witness: two partial updates of the same Product have both read the same
\* row and both written; one lowered the price below the cost the other one
\* set, and the stored row has cost <= price.
C15_Witness ==
    /\ \A w \in Workers : inflight[w].pc = "done" /\ inflight[w].status = 200
    /\ inflight[1].id = inflight[2].id
    /\ inflight[1].instance = inflight[2].instance
    /\ inflight[1].data[1].price # None /\ inflight[1].data[1].cost = None
    /\ inflight[2].data[1].cost # None /\ inflight[2].data[1].price = None
    /\ inflight[2].data[1].cost[1] > inflight[1].data[1].price[1]
    /\ products[inflight[1].id].cost <= products[inflight[1].id].price

(***************************************************************************)
(* Response shapes                                                         *)
(***************************************************************************)
DetailOps == {"create", "retrieve", "update", "partial_update"}

\* A projection that is part of the full record and leaves some of it out.
Abbreviated(fields, res) ==
    "id" \in fields /\ fields \subseteq FullFields(res) /\ fields # FullFields(res)

\* The full record, with the computed total of a Product.
FullRecord(r, s) ==
    /\ s.fields = FullFields(r.res)
    /\ s.rec # None
    /\ (r.res = "product")
          => /\ "calculate_total_price" \in s.fields
             /\ "calculate_total_price" \in DOMAIN s.rec[1]

C8_Registration ==
    [][(req'.op = "register")
          => LET d == req'.data[1]
                 n == Len(users)
             IN  /\ (d.password # d.password2)
                        => (resp'.status = 400 /\ users' = users)
                 /\ (UserRegistrationFieldErrors(d) = {} /\ d.password = d.password2)
                        => resp'.status = 201
                 /\ IF resp'.status = 201
                    THEN /\ Len(users') = n + 1
                         /\ SubSeq(users', 1, n) = users
                         /\ users'[n + 1].email = d.email
                         /\ check_password(d.password, users'[n + 1])
                         /\ resp'.rec = UserProfile(n + 1, users'[n + 1])
                         /\ resp'.tokens = Some(n + 1)
                    ELSE users' = users]_vars

\* C8 witness: a second identity has been registered and answered 201 with
\* tokens.
C8_Witness ==
    /\ req.op = "register"
    /\ resp.status = 201
    /\ resp.tokens = Some(Len(users))
    /\ Len(users) = 2
    /\ check_password(req.data[1].password, users[2])

KnownEmail(email) == \E id \in DOMAIN users : users[id].email = email

WrongPassword(email, password) ==
    \E id \in DOMAIN users :
        users[id].email = email /\ ~check_password(password, users[id])

GenericRejection == [Invalid({"non_field_errors"}) EXCEPT !.detail = CredentialError]

\* C9: a login whose email is unknown, or whose email is known and whose
\* password is wrong, is answered 400 without tokens, and the answer is the
\* same generic credential error in both cases.
C9_LoginRejectionGeneric ==
    (/\ req.op = "login"
     /\ req.data[1].email # BlankEmail
     /\ req.data[1].password # ""
     /\ (~KnownEmail(req.data[1].email)
           \/ WrongPassword(req.data[1].email, req.data[1].password)))
        => (resp = GenericRejection /\ resp.status = 400 /\ resp.tokens = None)

\* C9 witness: a login with a registered email and a wrong password has been
\* rejected with the generic error.
C9_Witness ==
    /\ req.op = "login"
    /\ WrongPassword(req.data[1].email, req.data[1].password)
    /\ req.data[1].password # ""
    /\ resp = GenericRejection

LoginSucceeds(email, password) ==
    /\ UserLoginFieldErrors([email |-> email, password |-> password]) = {}
    /\ UserLoginSerializer_validate([email |-> email, password |-> password]).user # None

ChangeGuarded(r, s, before, after) ==
    LET d == r.data[1]
        u == r.who
    IN  /\ (after # before)
              => (check_password(d.old_password, before[u])
                    /\ d.new_password = d.new_password2)
        /\ (~check_password(d.old_password, before[u])
                \/ d.new_password # d.new_password2)
              => (s.status = 400 /\ after = before)

\* C10 as stated: a change-password request changes the stored password only
\* if the old password verifies and new_password = new_password2, is rejected
\* without a change otherwise, and after a successful change login succeeds
\* with the new password and fails with the old one.
C10_ChangePassword ==
    [][(req'.op = "change_password" /\ req'.who \in DOMAIN users)
          => /\ ChangeGuarded(req', resp', users, users')
             /\ (resp'.status = 200)
                   => /\ LoginSucceeds(users[req.who].email, req.data[1].new_password)'
                      /\ ~LoginSucceeds(users[req.who].email,
                                        req.data[1].old_password)']_vars

\* C10 amended: as stated, except that after a successful change login with
\* the old password fails only when the new password differs from the old one
\* (a change to the same password is accepted).
C10_ChangePasswordUnlessSame ==
    [][(req'.op = "change_password" /\ req'.who \in DOMAIN users)
          => /\ ChangeGuarded(req', resp', users, users')
             /\ (resp'.status = 200)
                   => /\ LoginSucceeds(users[req.who].email, req.data[1].new_password)'
                      /\ (req'.data[1].new_password # req'.data[1].old_password)
                            => ~LoginSucceeds(users[req.who].email,
                                              req.data[1].old_password)']_vars

\* C10 witness: a password has been changed to a different one; the new one
\* logs in and the old one does not.
C10_Witness ==
    /\ req.op = "change_password"
    /\ resp.status = 200
    /\ req.data[1].new_password # req.data[1].old_password
    /\ LoginSucceeds(users[req.who].email, req.data[1].new_password)
    /\ ~LoginSucceeds(users[req.who].email, req.data[1].old_password)

====
